---------------------------- MODULE Spec2Model ----------------------------
(***************************************************************************)
(* The order intent and cart state engine of app.py: intent classification *)
(* of an utterance, item extraction (generative extractor with rule-based  *)
(* fallback), cart aggregation and the per-session lifecycle.              *)
(*                                                                         *)
(* Text is modelled as a sequence of one-character strings, so that        *)
(* lower(), strip(), split(), the substring tests and the anchored regular *)
(* expressions are computed the way the code computes them.  Prices are    *)
(* in cents (8.99 is 899).                                                 *)
(***************************************************************************)
EXTENDS Integers, Sequences, FiniteSets, TLC

(***************************************************************************)
(* Characters and the string functions of the Python runtime the code uses *)
(***************************************************************************)
UpperChars == <<"A","B","C","D","E","F","G","H","I","J","K","L","M","N","O","P","Q","R","S","T","U","V","W","X","Y","Z">>

LowerChars == <<"a","b","c","d","e","f","g","h","i","j","k","l","m","n","o","p","q","r","s","t","u","v","w","x","y","z">>

DigitChars == <<"0","1","2","3","4","5","6","7","8","9">>

\* str.isspace() for the characters that occur in the modelled texts
Whitespace == {" ", "\t", "\n"}

LowerChar(c) ==
  IF \E i \in 1..Len(UpperChars) : UpperChars[i] = c
  THEN LowerChars[CHOOSE i \in 1..Len(UpperChars) : UpperChars[i] = c]
  ELSE c

\* str.lower()
Lower(s) == [i \in 1..Len(s) |-> LowerChar(s[i])]

\* str.strip(): drop leading and trailing whitespace
Strip(s) ==
  LET keep == {i \in 1..Len(s) : s[i] \notin Whitespace}
  IN  IF keep = {} THEN <<>>
      ELSE LET lo == CHOOSE i \in keep : \A j \in keep : i <= j
               hi == CHOOSE i \in keep : \A j \in keep : j <= i
           IN  SubSeq(s, lo, hi)

\* the Python test `sub in s` on strings
Contains(sub, s) ==
  \E i \in 1..(Len(s) - Len(sub) + 1) : SubSeq(s, i, i + Len(sub) - 1) = sub

\* str.split(): the maximal runs of non-whitespace characters, in order
RECURSIVE SplitFrom(_, _, _, _)
SplitFrom(s, i, cur, acc) ==
  IF i > Len(s) THEN (IF cur = <<>> THEN acc ELSE Append(acc, cur))
  ELSE IF s[i] \in Whitespace
       THEN SplitFrom(s, i + 1, <<>>, IF cur = <<>> THEN acc ELSE Append(acc, cur))
       ELSE SplitFrom(s, i + 1, Append(cur, s[i]), acc)

Split(s) == SplitFrom(s, 1, <<>>, <<>>)

\* str.isdigit(): non-empty and every character a decimal digit
IsDigit(s) ==
  /\ Len(s) > 0
  /\ \A i \in 1..Len(s) : \E d \in 1..Len(DigitChars) : DigitChars[d] = s[i]

DigitValue(c) == (CHOOSE d \in 1..Len(DigitChars) : DigitChars[d] = c) - 1

\* int(s) for a string of decimal digits
RECURSIVE IntOf(_)
IntOf(s) ==
  IF Len(s) = 0 THEN 0
  ELSE 10 * IntOf(SubSeq(s, 1, Len(s) - 1)) + DigitValue(s[Len(s)])

\* re.match(r'^<prefix>+$', s): the prefix, its last character repeated
\* one or more times in all, and nothing else
MatchPlus(prefix, s) ==
  /\ Len(s) >= Len(prefix)
  /\ SubSeq(s, 1, Len(prefix)) = prefix
  /\ \A i \in (Len(prefix) + 1)..Len(s) : s[i] = prefix[Len(prefix)]

\* re.match(r'^<phrase>$', s) on a stripped string: the whole string
MatchExact(phrase, s) == s = phrase

(***************************************************************************)
(* The strings that are kept in the state are TLA+ strings; Chars gives    *)
(* the characters of each, for the functions that look inside a string.    *)
(***************************************************************************)
Chars ==
  ("burger" :> <<"b","u","r","g","e","r">>) @@
  ("cheeseburger" :> <<"c","h","e","e","s","e","b","u","r","g","e","r">>) @@
  ("pizza" :> <<"p","i","z","z","a">>) @@
  ("pasta" :> <<"p","a","s","t","a">>) @@
  ("salad" :> <<"s","a","l","a","d">>) @@
  ("fries" :> <<"f","r","i","e","s">>) @@
  ("chicken wings" :> <<"c","h","i","c","k","e","n"," ","w","i","n","g","s">>) @@
  ("sandwich" :> <<"s","a","n","d","w","i","c","h">>) @@
  ("soda" :> <<"s","o","d","a">>) @@
  ("water" :> <<"w","a","t","e","r">>) @@
  ("coffee" :> <<"c","o","f","f","e","e">>) @@
  ("milkshake" :> <<"m","i","l","k","s","h","a","k","e">>) @@
  ("ok" :> <<"o","k">>) @@
  ("clear my cart and checkout" :> <<"c","l","e","a","r"," ","m","y"," ","c","a","r","t"," ","a","n","d"," ","c","h","e","c","k","o","u","t">>) @@
  ("that's all, no more pizza" :> <<"t","h","a","t","'","s"," ","a","l","l",","," ","n","o"," ","m","o","r","e"," ","p","i","z","z","a">>) @@
  ("a burger" :> <<"a"," ","b","u","r","g","e","r">>) @@
  ("um" :> <<"u","m">>) @@
  ("  Hi!! " :> <<" "," ","H","i","!","!"," ">>) @@
  ("hi" :> <<"h","i">>) @@
  ("hi there" :> <<"h","i"," ","t","h","e","r","e">>) @@
  ("  Hi " :> <<" "," ","H","i"," ">>) @@
  ("hiii" :> <<"h","i","i","i">>) @@
  ("HELLO" :> <<"H","E","L","L","O">>) @@
  ("Thank you" :> <<"T","h","a","n","k"," ","y","o","u">>) @@
  ("no" :> <<"n","o">>) @@
  ("nope" :> <<"n","o","p","e">>) @@
  ("clear cart" :> <<"c","l","e","a","r"," ","c","a","r","t">>) @@
  ("checkout" :> <<"c","h","e","c","k","o","u","t">>) @@
  ("i'm done" :> <<"i","'","m"," ","d","o","n","e">>) @@
  ("finished" :> <<"f","i","n","i","s","h","e","d">>) @@
  ("two burgers and a coffee" :> <<"t","w","o"," ","b","u","r","g","e","r","s"," ","a","n","d"," ","a"," ","c","o","f","f","e","e">>) @@
  ("three more coffees" :> <<"t","h","r","e","e"," ","m","o","r","e"," ","c","o","f","f","e","e","s">>) @@
  ("0 fries" :> <<"0"," ","f","r","i","e","s">>) @@
  ("12 sodas please" :> <<"1","2"," ","s","o","d","a","s"," ","p","l","e","a","s","e">>) @@
  ("two chicken wings" :> <<"t","w","o"," ","c","h","i","c","k","e","n"," ","w","i","n","g","s">>) @@
  ("a cheeseburger" :> <<"a"," ","c","h","e","e","s","e","b","u","r","g","e","r">>) @@
  ("more fries" :> <<"m","o","r","e"," ","f","r","i","e","s">>) @@
  ("burger two" :> <<"b","u","r","g","e","r"," ","t","w","o">>) @@
  ("Coffee and 3 more water" :> <<"C","o","f","f","e","e"," ","a","n","d"," ","3"," ","m","o","r","e"," ","w","a","t","e","r">>) @@
  ("" :> <<>>) @@
  ("taco" :> <<"t","a","c","o">>)

(***************************************************************************)
(* The menu catalog and the phrase tables                                  *)
(***************************************************************************)
MENU == <<
  [key |-> "burger", name |-> "Burger", price |-> 899],
  [key |-> "cheeseburger", name |-> "Cheeseburger", price |-> 999],
  [key |-> "pizza", name |-> "Pizza", price |-> 1299],
  [key |-> "pasta", name |-> "Pasta", price |-> 1099],
  [key |-> "salad", name |-> "Salad", price |-> 799],
  [key |-> "fries", name |-> "Fries", price |-> 399],
  [key |-> "chicken wings", name |-> "Chicken Wings", price |-> 1199],
  [key |-> "sandwich", name |-> "Sandwich", price |-> 699],
  [key |-> "soda", name |-> "Soda", price |-> 299],
  [key |-> "water", name |-> "Water", price |-> 199],
  [key |-> "coffee", name |-> "Coffee", price |-> 349],
  [key |-> "milkshake", name |-> "Milkshake", price |-> 599]
>>

MenuIndex == 1..Len(MENU)

MenuKeys == {MENU[i].key : i \in MenuIndex}

\* the menu key spelled by the characters cs; "" when there is none
KeyOfChars(cs) ==
  IF \E i \in MenuIndex : Chars[MENU[i].key] = cs
  THEN MENU[CHOOSE i \in MenuIndex : Chars[MENU[i].key] = cs].key
  ELSE ""

\* MENU[key]
MenuEntry(k) == MENU[CHOOSE i \in MenuIndex : MENU[i].key = k]

casual_plus_patterns == <<
  <<"h","i">>,
  <<"h","e","l","l","o">>,
  <<"h","e","y">>
>>

casual_exact_patterns == <<
  <<"g","o","o","d"," ","m","o","r","n","i","n","g">>,
  <<"g","o","o","d"," ","a","f","t","e","r","n","o","o","n">>,
  <<"g","o","o","d"," ","e","v","e","n","i","n","g">>,
  <<"h","o","w"," ","a","r","e"," ","y","o","u">>,
  <<"t","h","a","n","k","s">>,
  <<"t","h","a","n","k"," ","y","o","u">>,
  <<"o","k","a","y">>,
  <<"o","k">>,
  <<"y","e","s">>,
  <<"n","o">>,
  <<"s","u","r","e">>,
  <<"a","l","r","i","g","h","t">>,
  <<"p","l","e","a","s","e">>
>>

checkout_phrases == <<
  <<"c","h","e","c","k","o","u","t">>,
  <<"c","h","e","c","k"," ","o","u","t">>,
  <<"c","o","m","p","l","e","t","e"," ","o","r","d","e","r">>,
  <<"c","o","m","p","l","e","t","e"," ","m","y"," ","o","r","d","e","r">>,
  <<"f","i","n","i","s","h"," ","o","r","d","e","r">>,
  <<"f","i","n","i","s","h"," ","m","y"," ","o","r","d","e","r">>,
  <<"p","l","a","c","e"," ","o","r","d","e","r">>,
  <<"p","l","a","c","e"," ","m","y"," ","o","r","d","e","r">>,
  <<"t","h","a","t","'","s"," ","a","l","l">>,
  <<"t","h","a","t"," ","i","s"," ","a","l","l">>,
  <<"i","'","m"," ","d","o","n","e">>,
  <<"i","m"," ","d","o","n","e">>,
  <<"d","o","n","e"," ","o","r","d","e","r","i","n","g">>,
  <<"f","i","n","i","s","h">>,
  <<"c","o","m","p","l","e","t","e">>,
  <<"t","h","a","t","s"," ","i","t">>,
  <<"t","h","a","t","'","s"," ","i","t">>
>>

quantity_map == <<
  [word |-> <<"a">>, value |-> 1],
  [word |-> <<"a","n">>, value |-> 1],
  [word |-> <<"o","n","e">>, value |-> 1],
  [word |-> <<"t","w","o">>, value |-> 2],
  [word |-> <<"t","h","r","e","e">>, value |-> 3],
  [word |-> <<"f","o","u","r">>, value |-> 4],
  [word |-> <<"f","i","v","e">>, value |-> 5],
  [word |-> <<"s","i","x">>, value |-> 6],
  [word |-> <<"s","e","v","e","n">>, value |-> 7],
  [word |-> <<"e","i","g","h","t">>, value |-> 8],
  [word |-> <<"n","i","n","e">>, value |-> 9],
  [word |-> <<"t","e","n">>, value |-> 10]
>>

ClearWord == <<"c","l","e","a","r">>

CartWord == <<"c","a","r","t">>

MoreWord == <<"m","o","r","e">>

(***************************************************************************)
(* Intent classifier                                                       *)
(***************************************************************************)
is_greeting_or_casual_prefix(text) ==
  LET text_lower == Strip(Lower(text))
  IN  \/ \E i \in 1..Len(casual_plus_patterns) :
           /\ Len(text_lower) >= Len(casual_plus_patterns[i])
           /\ SubSeq(text_lower, 1, Len(casual_plus_patterns[i])) = casual_plus_patterns[i]
      \/ \E i \in 1..Len(casual_exact_patterns) :
           MatchExact(casual_exact_patterns[i], text_lower)

\* is_greeting_or_casual(text): the anchored patterns on text.lower().strip()
is_greeting_or_casual(text) ==
  LET text_lower == Strip(Lower(text))
  IN  \/ \E i \in 1..Len(casual_plus_patterns) :
           MatchPlus(casual_plus_patterns[i], text_lower)
      \/ \E i \in 1..Len(casual_exact_patterns) :
           MatchExact(casual_exact_patterns[i], text_lower)

\* is_checkout_command(text): any checkout phrase is a substring
is_checkout_command(text) ==
  LET text_lower == Strip(Lower(text))
  IN  \E i \in 1..Len(checkout_phrases) : Contains(checkout_phrases[i], text_lower)

\* the cart-clear test of process_order
is_clear_cart(text) ==
  /\ Contains(ClearWord, Lower(text))
  /\ Contains(CartWord, Lower(text))

\* What the handler's tests and the fallback extractor compute from a text
TextFacts(text) ==
  [text     |-> text,
   casual   |-> is_greeting_or_casual(text),
   clear    |-> is_clear_cart(text),
   checkout |-> is_checkout_command(text)]

BranchCheckoutFirst(t) ==
  IF t.casual THEN "casual"
  ELSE IF t.checkout THEN "checkout"
  ELSE IF t.clear THEN "clear"
  ELSE "extract"

BranchItemsFirst(t) ==
  IF t.casual THEN "casual"
  ELSE IF t.clear THEN "clear"
  ELSE IF \E i \in MenuIndex : Contains(Chars[MENU[i].key], Lower(t.text)) THEN "extract"
  ELSE IF t.checkout THEN "checkout"
  ELSE "extract"

\* The branch of process_order an utterance takes: the if-chain of the
\* handler, each test reached only when the ones before it failed.
Branch(t) ==
  IF t.casual THEN "casual"
  ELSE IF t.clear THEN "clear"
  ELSE IF t.checkout THEN "checkout"
  ELSE "extract"

(***************************************************************************)
(* Item extractor                                                          *)
(***************************************************************************)
InQuantityMap(w) == \E i \in 1..Len(quantity_map) : quantity_map[i].word = w

QuantityOf(w) ==
  quantity_map[CHOOSE i \in 1..Len(quantity_map) : quantity_map[i].word = w].value

\* menu_key.split()[0]
FirstWord(key) == Split(Chars[key])[1]

FallbackQuantityNoMore(menu_key, words) ==
  LET hits == {i \in 1..Len(words) : Contains(FirstWord(menu_key), words[i])}
  IN  IF hits = {} THEN 1
      ELSE LET i == CHOOSE h \in hits : \A g \in hits : h <= g
           IN  IF i > 1
               THEN LET prev_word == words[i - 1]
                    IN  IF InQuantityMap(prev_word) THEN QuantityOf(prev_word)
                        ELSE IF IsDigit(prev_word) THEN IntOf(prev_word)
                        ELSE 1
               ELSE 1

\* The quantity the fallback extractor infers for menu_key: the loop over
\* enumerate(words), which stops at the first word containing the key's
\* first word (Python indexes from 0, the model from 1).
FallbackQuantity(menu_key, words) ==
  LET hits == {i \in 1..Len(words) : Contains(FirstWord(menu_key), words[i])}
  IN  IF hits = {} THEN 1
      ELSE LET i == CHOOSE h \in hits : \A g \in hits : h <= g
           IN  IF i > 1
               THEN LET prev_word == words[i - 1]
                    IN  IF InQuantityMap(prev_word) THEN QuantityOf(prev_word)
                        ELSE IF IsDigit(prev_word) THEN IntOf(prev_word)
                        ELSE IF i > 2 /\ prev_word = MoreWord
                             THEN IF InQuantityMap(words[i - 2])
                                  THEN QuantityOf(words[i - 2])
                                  ELSE IF IsDigit(words[i - 2])
                                       THEN IntOf(words[i - 2])
                                       ELSE 1
                             ELSE 1
               ELSE 1

MakeItemKeyAsName(key, quantity) ==
  [key |-> key, name |-> key, price |-> MenuEntry(key).price, quantity |-> quantity]

MakeItem(key, quantity) ==
  [key |-> key, name |-> MenuEntry(key).name, price |-> MenuEntry(key).price,
   quantity |-> quantity]

\* fallback_extract_order(user_text): one item per menu key that is a
\* substring of the lowercased text, in the order of MENU.keys()
RECURSIVE FallbackFrom(_, _, _)
FallbackFrom(text_lower, k, items) ==
  IF k > Len(MENU) THEN items
  ELSE IF Contains(Chars[MENU[k].key], text_lower)
       THEN FallbackFrom(text_lower, k + 1,
              Append(items, MakeItem(MENU[k].key,
                                     FallbackQuantity(MENU[k].key, Split(text_lower)))))
       ELSE FallbackFrom(text_lower, k + 1, items)

fallback_extract_order_cased(user_text) == FallbackFrom(user_text, 1, <<>>)

fallback_extract_order(user_text) == FallbackFrom(Lower(user_text), 1, <<>>)

\* What the completion service answers to one extraction prompt, as far as
\* the code looks at it:
\*   kind "raise"      generate_content or response.text raises
\*   kind "empty"      the text is empty: json.loads("") raises
\*   kind "malformed"  the sanitised text is not JSON: json.loads raises
\*   kind "list"       the sanitised text parses to the array `entries`
\*   kind "non_list"   it parses to a value that is no array and that the loop
\*                     cannot walk (a number, null) or walks into a raise (the
\*                     keys of an object, the characters of a string)
\*   kind "empty_non_list"  it parses to {} or "": the loop body never runs
\* An entry of the array is an object or not (shape); an object carries an
\* "item" that is a string, is missing or is no string (item_kind), and a
\* "quantity" that int() accepts, is missing or makes int() raise (qty_kind).
NoReply == [kind |-> "none", entries |-> <<>>]

Entry(item, quantity) ==
  [shape |-> "object", item_kind |-> "str", item |-> item,
   qty_kind |-> "int", quantity |-> quantity]

\* the statements of the loop body that can raise: item.get on a non-object,
\* .lower() on a non-string, int() on a non-number
EntryRaises(e) ==
  \/ e.shape # "object"
  \/ e.item_kind = "non_str"
  \/ e.qty_kind = "bad"

\* item.get('item', '').lower().strip()
EntryItemName(e) == IF e.item_kind = "str" THEN Strip(Lower(e.item)) ELSE <<>>

\* int(item.get('quantity', 1))
EntryQuantity(e) == IF e.qty_kind = "int" THEN e.quantity ELSE 1

RECURSIVE ValidItemsFrom(_, _, _)
ValidItemsFrom(entries, i, valid_items) ==
  IF i > Len(entries) THEN valid_items
  ELSE IF KeyOfChars(EntryItemName(entries[i])) \in MenuKeys
       THEN ValidItemsFrom(entries, i + 1,
              Append(valid_items,
                     MakeItem(KeyOfChars(EntryItemName(entries[i])),
                              EntryQuantity(entries[i]))))
       ELSE ValidItemsFrom(entries, i + 1, valid_items)

PrimaryRaisesKindOnly(reply) ==
  reply.kind \in {"raise", "empty", "malformed", "non_list"}

\* the try block of extract_order_with_gemini: TRUE when it raises
PrimaryRaises(reply) ==
  \/ reply.kind \in {"raise", "empty", "malformed", "non_list"}
  \/ /\ reply.kind = "list"
     /\ \E i \in 1..Len(reply.entries) : EntryRaises(reply.entries[i])

\* extract_order_with_gemini(user_text) with the module-level `model`
\* (configured or None) and the completion service's reply; `fallback` is
\* fallback_extract_order(user_text)
extract_order_with_gemini(t, fallback, configured, reply) ==
  IF t.casual THEN <<>>
  ELSE IF t.checkout THEN <<>>
  ELSE IF ~configured THEN fallback
  ELSE IF PrimaryRaises(reply) THEN fallback
  ELSE ValidItemsFrom(reply.entries, 1, <<>>)

(***************************************************************************)
(* Engine state: the module-level objects of app.py                        *)
(***************************************************************************)
VARIABLES
  model,                 \* TRUE when GEMINI_API_KEY configured a GenerativeModel
  sf,                    \* TRUE when the Salesforce connection was made
  carts,                 \* session id -> sequence of cart lines
  conversation_history,  \* session id -> sequence of logged texts
  sessions,              \* session token -> user
  completed_orders,      \* session id -> BOOLEAN
  issued,                \* the session tokens handed out so far
  sf_orders,             \* the Order__c records (with their items) in the record store
  response,              \* the JSON body of the last process_order response
  last,                  \* the last process_order request and the path it took
  line_ids,              \* session id -> the identities of the lines of its cart
  probe,                 \* one text put to the classifier and the extractors
  threads                \* the request threads of the server, each with the
                         \* locals of the process_order call it is running

engine == <<model, sf, carts, conversation_history, sessions, completed_orders,
            issued, sf_orders, response, last, line_ids>>

\* bounds of the model
MaxUtterances == 3

SessionIds == {"s1", "s2"}

Tokens == {"t1"}

\* request without a session_token
NoToken == "none"

Customers == {"cust1"}

NoUser == [customer_id |-> "none", name |-> "none"]

\* a Python dict: a function on the keys inserted so far
EmptyDict == [k \in {} |-> k]

Put(d, k, v) == [x \in (DOMAIN d) \cup {k} |-> IF x = k THEN v ELSE d[x]]

Remove(d, k) == [x \in (DOMAIN d) \ {k} |-> d[x]]

\* d.get(k, default)
Get(d, k, default) == IF k \in DOMAIN d THEN d[k] ELSE default

\* the utterances the clients send
Utterances ==
  {"ok",
   "clear my cart and checkout",
   "that's all, no more pizza",
   "a burger",
   "um"}

\* the replies of the completion service to an extraction prompt
ReplyRaise == [kind |-> "raise", entries |-> <<>>]

ReplyEmptyText == [kind |-> "empty", entries |-> <<>>]

ReplyMalformed == [kind |-> "malformed", entries |-> <<>>]

ReplyList(entries) == [kind |-> "list", entries |-> entries]

ReplyNonList == [kind |-> "non_list", entries |-> <<>>]

ReplyEmptyNonList == [kind |-> "empty_non_list", entries |-> <<>>]

EngineReplies ==
  { ReplyRaise,
    ReplyList(<<>>),
    ReplyList(<<Entry(<<"C","o","f","f","e","e"," ">>, 1), Entry(Chars["taco"], 1),
                Entry(Chars["coffee"], 2)>>) }

(***************************************************************************)
(* Cart aggregator                                                         *)
(***************************************************************************)
TotalFirstLine(cart) ==
  IF cart = <<>> THEN 0 ELSE cart[1].price * cart[1].quantity

\* sum(item['price'] * item['quantity'] for item in cart)
RECURSIVE Total(_)
Total(cart) ==
  IF cart = <<>> THEN 0
  ELSE cart[1].price * cart[1].quantity + Total(Tail(cart))

FirstLineNone(cart, key) == 0

\* next((x for x in cart if x['key'] == key), None): the position of the
\* first line with that key, 0 for None
FirstLine(cart, key) ==
  LET hits == {i \in 1..Len(cart) : cart[i].key = key}
  IN  IF hits = {} THEN 0 ELSE CHOOSE i \in hits : \A j \in hits : i <= j

MergeItemReplace(st, i) ==
  LET item     == st.items[i]
      existing == FirstLine(st.cart, item.key)
  IN  IF existing # 0
      THEN [st EXCEPT !.cart[existing].quantity = item.quantity]
      ELSE [st EXCEPT !.cart = Append(@, item), !.alias[i] = Len(st.cart) + 1]

\* One pass of the merge loop.  An appended item is the very dict that
\* extracted_items holds, so alias[j] is the cart position that item j
\* became (0 when it was added to an existing line instead).
MergeItem(st, i) ==
  LET item     == st.items[i]
      existing == FirstLine(st.cart, item.key)
  IN  IF existing # 0
      THEN [st EXCEPT !.cart[existing].quantity = @ + item.quantity]
      ELSE [st EXCEPT !.cart = Append(@, item), !.alias[i] = Len(st.cart) + 1]

RECURSIVE MergeFrom(_, _)
MergeFrom(st, i) ==
  IF i > Len(st.items) THEN st ELSE MergeFrom(MergeItem(st, i), i + 1)

\* the merge loop of process_order over extracted_items
MergeLoop(cart, extracted_items) ==
  MergeFrom([cart |-> cart, items |-> extracted_items,
             alias |-> [j \in 1..Len(extracted_items) |-> 0]], 1)

Merge(cart, extracted_items) == MergeLoop(cart, extracted_items).cart

\* extracted_items as the response serialises it after the loop
ItemsAdded(cart, extracted_items) ==
  LET st == MergeLoop(cart, extracted_items)
  IN  [j \in 1..Len(extracted_items) |->
         IF st.alias[j] # 0 THEN st.cart[st.alias[j]] ELSE extracted_items[j]]

(***************************************************************************)
(* The identity of the cart lines: each line of a cart is a dict object,   *)
(* and line_ids[s][p] names the object at position p of carts[s].          *)
(***************************************************************************)
\* the objects the carts refer to
UsedIds(ids) == UNION {{ids[s][p] : p \in DOMAIN ids[s]} : s \in DOMAIN ids}

FreshIdsFromMenu(used, items) ==
  [j \in 1..Len(items) |-> CHOOSE i \in MenuIndex : MENU[i].key = items[j].key]

\* valid_items.append({...}) / items.append({...}) of the extractors: every
\* item of an extraction result is a dict of its own, created by that call
\* and distinct from every object a cart refers to
FreshIds(used, items) ==
  LET free == (1..(Cardinality(used) + Len(items))) \ used
  IN  [j \in 1..Len(items) |->
         CHOOSE x \in free : Cardinality({y \in free : y < x}) = j - 1]

\* the objects of the cart after the merge loop: a line merged into stays
\* the object it was, an appended line is the extracted item itself
MergedIds(ids, cart, extracted_items, used) ==
  LET st    == MergeLoop(cart, extracted_items)
      fresh == FreshIds(used, extracted_items)
  IN  [p \in 1..Len(st.cart) |->
         IF p <= Len(cart) THEN ids[p]
         ELSE fresh[CHOOSE j \in 1..Len(extracted_items) : st.alias[j] = p]]

\* line_ids after process_order: carts[session_id] = [] stores a new empty
\* list (lines 570, 587, 635), the merge loop appends the extracted items
LineIdsAfter(ids, session_id, branch, cart, completed, extracted_items) ==
  LET ids1 == IF session_id \in DOMAIN ids THEN ids ELSE Put(ids, session_id, <<>>)
  IN  CASE branch = "clear" -> [ids1 EXCEPT ![session_id] = <<>>]
        [] branch = "extract" /\ extracted_items # <<>> ->
             [ids1 EXCEPT ![session_id] =
                MergedIds(IF completed THEN <<>> ELSE ids1[session_id],
                          IF completed THEN <<>> ELSE cart,
                          extracted_items, UsedIds(ids1))]
        [] OTHER -> ids1

(***************************************************************************)
(* Record store                                                            *)
(***************************************************************************)
\* The outcome of one save_order_to_salesforce call: whether
\* sf.Order__c.create returned, and how many sf.Order_Item__c.create calls
\* returned before one raised (all of them when none did).
SaveOutcome(created, written) ==
  [attempted |-> TRUE, created |-> created, written |-> written]

\* no createOrder call in this request
NoWrite == [attempted |-> FALSE, created |-> FALSE, written |-> 0]

SaveOutcomes(cart_items) ==
  {SaveOutcome(FALSE, 0)} \cup {SaveOutcome(TRUE, k) : k \in 0..Len(cart_items)}

\* the record store after save_order_to_salesforce
SaveOrder(store, customer_id, session_id, cart_items, total, outcome) ==
  IF ~outcome.created THEN store
  ELSE Append(store,
         [id |-> Len(store) + 1, customer |-> customer_id, session |-> session_id,
          total |-> total, status |-> "Completed",
          items |-> [k \in 1..outcome.written |->
                       [name |-> cart_items[k].name, quantity |-> cart_items[k].quantity,
                        unit_price |-> cart_items[k].price,
                        total_price |-> cart_items[k].price * cart_items[k].quantity]]])

SaveResultCreated(store, cart_items, outcome) ==
  IF outcome.created THEN Len(store) + 1 ELSE 0

\* what save_order_to_salesforce returns: the order id, 0 for None
SaveResult(store, cart_items, outcome) ==
  IF outcome.created /\ outcome.written = Len(cart_items) THEN Len(store) + 1 ELSE 0

(***************************************************************************)
(* Session lifecycle: the process_order handler, run to completion         *)
(***************************************************************************)
NoResponse ==
  [kind |-> "none", success |-> FALSE, cart |-> <<>>, total |-> 0,
   has_items_added |-> FALSE, items_added |-> <<>>, checkout |-> FALSE,
   order_id |-> 0, status |-> 200, error |-> "", user |-> NoUser, orders |-> <<>>]

NoRequest ==
  [session_id |-> "none", text |-> "", customer_id |-> "none", branch |-> "none",
   extract_called |-> FALSE, reply |-> NoReply, extracted |-> <<>>,
   sf_attempted |-> FALSE, pre_cart |-> <<>>, pre_completed |-> FALSE]

\* the utterances logged so far, over all sessions
RECURSIVE SumLen(_, _)
SumLen(d, keys) ==
  IF keys = {} THEN 0
  ELSE LET k == CHOOSE x \in keys : TRUE
       IN  Len(d[k]) + SumLen(d, keys \ {k})

Logged == SumLen(conversation_history, DOMAIN conversation_history)

get_user_from_session_issued(session_token) ==
  IF session_token \in issued
  THEN [customer_id |-> "cust1", name |-> "cust1"] ELSE NoUser

\* sessions.get(session_token)
get_user_from_session(session_token) == Get(sessions, session_token, NoUser)

\* get_user_from_session(session_token) if session_token else None
UserOf(session_token) ==
  IF session_token # NoToken THEN get_user_from_session(session_token) ELSE NoUser

\* the JSON body of each return statement of process_order
CasualResponse(cart) ==
  [NoResponse EXCEPT !.kind = "casual", !.success = TRUE, !.cart = cart,
                     !.total = Total(cart), !.has_items_added = TRUE]

ClearResponse ==
  [NoResponse EXCEPT !.kind = "clear", !.success = TRUE]

EmptyCheckoutSucceeds ==
  [NoResponse EXCEPT !.kind = "empty_checkout", !.success = TRUE]

EmptyCheckoutResponse ==
  [NoResponse EXCEPT !.kind = "empty_checkout"]

CheckoutResponse(cart, total, order_id) ==
  [NoResponse EXCEPT !.kind = "checkout", !.success = TRUE, !.cart = cart,
                     !.total = total, !.checkout = TRUE, !.order_id = order_id]

NoItemsResponse(cart) ==
  [NoResponse EXCEPT !.kind = "no_items", !.cart = cart, !.total = Total(cart)]

AddResponse(cart, total, items_added) ==
  [NoResponse EXCEPT !.kind = "add", !.success = TRUE, !.cart = cart,
                     !.total = total, !.has_items_added = TRUE,
                     !.items_added = items_added]

RestartedCartKeep(cart, completed) == cart

\* the cart the add branch merges into: emptied when the session's previous
\* order was completed
RestartedCart(cart, completed) == IF completed THEN <<>> ELSE cart

ClearedCartsKeep(cs, session_id) == cs

\* carts[session_id] = [] of the cart-clear branch
ClearedCarts(cs, session_id) == [cs EXCEPT ![session_id] = <<>>]

\* the analysis of each utterance, computed once
UtteranceFacts == [u \in Utterances |-> TextFacts(Chars[u])]

UtteranceFallback == [u \in Utterances |-> fallback_extract_order(Chars[u])]

\* extract_order_with_gemini on each utterance, for each configuration and
\* each reply, computed once
Extracted ==
  [u \in Utterances, configured \in BOOLEAN, reply \in EngineReplies \cup {NoReply} |->
     extract_order_with_gemini(UtteranceFacts[u], UtteranceFallback[u],
                               configured, reply)]

\* the replies the completion service can give when process_order reaches
\* the extractor with a configured model, NoReply when it is never asked
RepliesFor(user_text, configured) ==
  IF Branch(UtteranceFacts[user_text]) = "extract" /\ configured
  THEN EngineReplies ELSE {NoReply}

\* the outcomes of the record-store write of a checkout, NoWrite when the
\* handler does not reach save_order_to_salesforce
OutcomesFor(user_text, cart, connected, customer_id) ==
  IF /\ Branch(UtteranceFacts[user_text]) = "checkout"
     /\ cart # <<>> /\ connected /\ customer_id # "none"
  THEN SaveOutcomes(cart) ELSE {NoWrite}

ProcessOrderEagerClear(session_id, user_text, session_token, reply, sf_outcome) ==
  LET user        == UserOf(session_token)
      customer_id == user.customer_id
      carts1      == IF session_id \in DOMAIN carts THEN carts
                     ELSE Put(carts, session_id, <<>>)
      history1    == IF session_id \in DOMAIN conversation_history
                     THEN conversation_history
                     ELSE Put(conversation_history, session_id, <<>>)
      cart        == carts1[session_id]
      completed   == Get(completed_orders, session_id, FALSE)
      facts       == UtteranceFacts[user_text]
      branch      == Branch(facts)
      saves       == branch = "checkout" /\ cart # <<>> /\ sf /\ customer_id # "none"
      extracted   == IF branch = "extract"
                     THEN Extracted[user_text, model, reply]
                     ELSE <<>>
      total       == Total(cart)
      restarted   == RestartedCart(cart, completed)
      request     == [session_id |-> session_id, text |-> user_text,
                      customer_id |-> customer_id, branch |-> branch,
                      extract_called |-> branch = "extract",
                      reply |-> reply,
                      extracted |-> extracted,
                      sf_attempted |-> sf_outcome.attempted,
                      pre_cart |-> cart, pre_completed |-> completed]
  IN  /\ Logged < MaxUtterances
      /\ conversation_history' =
           [history1 EXCEPT ![session_id] = Append(@, <<"Customer", user_text>>)]
      /\ last' = request
      /\ line_ids' = LineIdsAfter(line_ids, session_id, branch, cart, completed,
                                  extracted)
      /\ CASE branch = "casual" ->
                /\ carts' = carts1
                /\ response' = CasualResponse(cart)
                /\ UNCHANGED <<completed_orders, sf_orders>>
           [] branch = "clear" ->
                /\ carts' = ClearedCarts(carts1, session_id)
                /\ response' = ClearResponse
                /\ UNCHANGED <<completed_orders, sf_orders>>
           [] branch = "checkout" /\ cart = <<>> ->
                /\ carts' = carts1
                /\ response' = EmptyCheckoutResponse
                /\ UNCHANGED <<completed_orders, sf_orders>>
           [] branch = "checkout" /\ cart # <<>> ->
                /\ carts' = ClearedCarts(carts1, session_id)
                /\ sf_orders' = IF saves
                                THEN SaveOrder(sf_orders, customer_id, session_id,
                                               cart, total, sf_outcome)
                                ELSE sf_orders
                /\ completed_orders' = Put(completed_orders, session_id, TRUE)
                /\ response' = CheckoutResponse(cart, total,
                                 IF saves THEN SaveResult(sf_orders, cart, sf_outcome)
                                 ELSE 0)
           [] branch = "extract" /\ extracted = <<>> ->
                /\ carts' = carts1
                /\ response' = NoItemsResponse(cart)
                /\ UNCHANGED <<completed_orders, sf_orders>>
           [] branch = "extract" /\ extracted # <<>> ->
                /\ carts' = [carts1 EXCEPT ![session_id] = Merge(restarted, extracted)]
                /\ completed_orders' = IF completed
                                       THEN Put(completed_orders, session_id, FALSE)
                                       ELSE completed_orders
                /\ response' = AddResponse(Merge(restarted, extracted),
                                           Total(Merge(restarted, extracted)),
                                           ItemsAdded(restarted, extracted))
                /\ UNCHANGED sf_orders
      /\ UNCHANGED <<model, sf, sessions, issued, probe, threads>>

ProcessOrderRestartFirst(session_id, user_text, session_token, reply, sf_outcome) ==
  LET user        == UserOf(session_token)
      customer_id == user.customer_id
      carts1      == IF session_id \in DOMAIN carts THEN carts
                     ELSE Put(carts, session_id, <<>>)
      history1    == IF session_id \in DOMAIN conversation_history
                     THEN conversation_history
                     ELSE Put(conversation_history, session_id, <<>>)
      cart        == carts1[session_id]
      completed   == Get(completed_orders, session_id, FALSE)
      facts       == UtteranceFacts[user_text]
      branch      == Branch(facts)
      saves       == branch = "checkout" /\ cart # <<>> /\ sf /\ customer_id # "none"
      extracted   == IF branch = "extract"
                     THEN Extracted[user_text, model, reply]
                     ELSE <<>>
      total       == Total(cart)
      restarted   == RestartedCart(cart, completed)
      request     == [session_id |-> session_id, text |-> user_text,
                      customer_id |-> customer_id, branch |-> branch,
                      extract_called |-> branch = "extract",
                      reply |-> reply,
                      extracted |-> extracted,
                      sf_attempted |-> sf_outcome.attempted,
                      pre_cart |-> cart, pre_completed |-> completed]
  IN  /\ Logged < MaxUtterances
      /\ conversation_history' =
           [history1 EXCEPT ![session_id] = Append(@, <<"Customer", user_text>>)]
      /\ last' = request
      /\ line_ids' = LineIdsAfter(line_ids, session_id, branch, cart, completed,
                                  extracted)
      /\ CASE branch = "casual" ->
                /\ carts' = carts1
                /\ response' = CasualResponse(cart)
                /\ UNCHANGED <<completed_orders, sf_orders>>
           [] branch = "clear" ->
                /\ carts' = ClearedCarts(carts1, session_id)
                /\ response' = ClearResponse
                /\ UNCHANGED <<completed_orders, sf_orders>>
           [] branch = "checkout" /\ cart = <<>> ->
                /\ carts' = carts1
                /\ response' = EmptyCheckoutResponse
                /\ UNCHANGED <<completed_orders, sf_orders>>
           [] branch = "checkout" /\ cart # <<>> ->
                /\ carts' = carts1
                /\ sf_orders' = IF saves
                                THEN SaveOrder(sf_orders, customer_id, session_id,
                                               cart, total, sf_outcome)
                                ELSE sf_orders
                /\ completed_orders' = Put(completed_orders, session_id, TRUE)
                /\ response' = CheckoutResponse(cart, total,
                                 IF saves THEN SaveResult(sf_orders, cart, sf_outcome)
                                 ELSE 0)
           [] branch = "extract" /\ extracted = <<>> ->
                /\ carts' = [carts1 EXCEPT ![session_id] = restarted]
                /\ completed_orders' = IF completed
                                       THEN Put(completed_orders, session_id, FALSE)
                                       ELSE completed_orders
                /\ response' = NoItemsResponse(restarted)
                /\ UNCHANGED sf_orders
           [] branch = "extract" /\ extracted # <<>> ->
                /\ carts' = [carts1 EXCEPT ![session_id] = Merge(restarted, extracted)]
                /\ completed_orders' = IF completed
                                       THEN Put(completed_orders, session_id, FALSE)
                                       ELSE completed_orders
                /\ response' = AddResponse(Merge(restarted, extracted),
                                           Total(Merge(restarted, extracted)),
                                           ItemsAdded(restarted, extracted))
                /\ UNCHANGED sf_orders
      /\ UNCHANGED <<model, sf, sessions, issued, probe, threads>>

\* POST /api/process-order
ProcessOrder(session_id, user_text, session_token, reply, sf_outcome) ==
  LET user        == UserOf(session_token)
      customer_id == user.customer_id
      carts1      == IF session_id \in DOMAIN carts THEN carts
                     ELSE Put(carts, session_id, <<>>)
      history1    == IF session_id \in DOMAIN conversation_history
                     THEN conversation_history
                     ELSE Put(conversation_history, session_id, <<>>)
      cart        == carts1[session_id]
      completed   == Get(completed_orders, session_id, FALSE)
      facts       == UtteranceFacts[user_text]
      branch      == Branch(facts)
      saves       == branch = "checkout" /\ cart # <<>> /\ sf /\ customer_id # "none"
      extracted   == IF branch = "extract"
                     THEN Extracted[user_text, model, reply]
                     ELSE <<>>
      total       == Total(cart)
      restarted   == RestartedCart(cart, completed)
      request     == [session_id |-> session_id, text |-> user_text,
                      customer_id |-> customer_id, branch |-> branch,
                      extract_called |-> branch = "extract",
                      reply |-> reply,
                      extracted |-> extracted,
                      sf_attempted |-> sf_outcome.attempted,
                      pre_cart |-> cart, pre_completed |-> completed]
  IN  /\ Logged < MaxUtterances
      /\ conversation_history' =
           [history1 EXCEPT ![session_id] = Append(@, <<"Customer", user_text>>)]
      /\ last' = request
      /\ line_ids' = LineIdsAfter(line_ids, session_id, branch, cart, completed,
                                  extracted)
      /\ CASE branch = "casual" ->
                /\ carts' = carts1
                /\ response' = CasualResponse(cart)
                /\ UNCHANGED <<completed_orders, sf_orders>>
           [] branch = "clear" ->
                /\ carts' = ClearedCarts(carts1, session_id)
                /\ response' = ClearResponse
                /\ UNCHANGED <<completed_orders, sf_orders>>
           [] branch = "checkout" /\ cart = <<>> ->
                /\ carts' = carts1
                /\ response' = EmptyCheckoutResponse
                /\ UNCHANGED <<completed_orders, sf_orders>>
           [] branch = "checkout" /\ cart # <<>> ->
                /\ carts' = carts1
                /\ sf_orders' = IF saves
                                THEN SaveOrder(sf_orders, customer_id, session_id,
                                               cart, total, sf_outcome)
                                ELSE sf_orders
                /\ completed_orders' = Put(completed_orders, session_id, TRUE)
                /\ response' = CheckoutResponse(cart, total,
                                 IF saves THEN SaveResult(sf_orders, cart, sf_outcome)
                                 ELSE 0)
           [] branch = "extract" /\ extracted = <<>> ->
                /\ carts' = carts1
                /\ response' = NoItemsResponse(cart)
                /\ UNCHANGED <<completed_orders, sf_orders>>
           [] branch = "extract" /\ extracted # <<>> ->
                /\ carts' = [carts1 EXCEPT ![session_id] = Merge(restarted, extracted)]
                /\ completed_orders' = IF completed
                                       THEN Put(completed_orders, session_id, FALSE)
                                       ELSE completed_orders
                /\ response' = AddResponse(Merge(restarted, extracted),
                                           Total(Merge(restarted, extracted)),
                                           ItemsAdded(restarted, extracted))
                /\ UNCHANGED sf_orders
      /\ UNCHANGED <<model, sf, sessions, issued, probe, threads>>

\* POST /api/auth/login with valid credentials: authenticate_user stores a
\* fresh secrets.token_urlsafe token
Login(session_token, customer_id) ==
  /\ sf
  /\ session_token \notin issued
  /\ issued' = issued \cup {session_token}
  /\ sessions' = Put(sessions, session_token,
                     [customer_id |-> customer_id, name |-> customer_id])
  /\ UNCHANGED <<model, sf, carts, conversation_history, completed_orders,
                 sf_orders, response, last, line_ids, probe, threads>>

\* POST /api/auth/logout
Logout(session_token) ==
  /\ session_token \in DOMAIN sessions
  /\ sessions' = Remove(sessions, session_token)
  /\ UNCHANGED <<model, sf, carts, conversation_history, completed_orders,
                 issued, sf_orders, response, last, line_ids, probe, threads>>

\* the 401 answer of the account endpoints
NotAuthenticated ==
  [NoResponse EXCEPT !.kind = "not_authenticated", !.status = 401,
                     !.error = "Not authenticated"]

\* GET /api/auth/me; an absent Authorization header gives the token '',
\* which is modelled as NoToken.  `last` describes the process_order request
\* that `response` answers, and is reset when `response` answers another
\* endpoint.
GetCurrentUser(session_token) ==
  LET user == get_user_from_session(session_token)
  IN  /\ response' = IF user = NoUser THEN NotAuthenticated
                      ELSE [NoResponse EXCEPT !.kind = "me", !.user = user]
      /\ last' = NoRequest
      /\ UNCHANGED <<model, sf, carts, conversation_history, sessions,
                     completed_orders, issued, sf_orders, line_ids, probe, threads>>

\* the orders get_user_orders builds from the record store, newest first
RECURSIVE OrdersOf(_, _)
OrdersOf(store, customer_id) ==
  IF store = <<>> THEN <<>>
  ELSE LET order == store[Len(store)]
           rest  == OrdersOf(SubSeq(store, 1, Len(store) - 1), customer_id)
       IN  IF order.customer = customer_id
           THEN <<[order_id |-> order.id, total |-> order.total,
                   status |-> order.status,
                   items |-> [k \in 1..Len(order.items) |->
                                [name |-> order.items[k].name,
                                 quantity |-> order.items[k].quantity,
                                 price |-> order.items[k].unit_price]]]>> \o rest
           ELSE rest

\* GET /api/orders/history; `answered` is FALSE when a query of
\* get_user_orders raises, and the endpoint then lists no orders
GetOrderHistory(session_token, answered) ==
  LET user == get_user_from_session(session_token)
  IN  /\ response' = IF user = NoUser THEN NotAuthenticated
                      ELSE [NoResponse EXCEPT
                              !.kind = "history",
                              !.orders = IF sf /\ answered
                                         THEN OrdersOf(sf_orders, user.customer_id)
                                         ELSE <<>>]
      /\ last' = NoRequest
      /\ UNCHANGED <<model, sf, carts, conversation_history, sessions,
                     completed_orders, issued, sf_orders, line_ids, probe, threads>>

\* the module-level objects after import: the dicts empty, `model` and `sf`
\* set or None as the environment configures them
EngineInit ==
  /\ model \in BOOLEAN
  /\ sf \in BOOLEAN
  /\ carts = EmptyDict
  /\ conversation_history = EmptyDict
  /\ sessions = EmptyDict
  /\ completed_orders = EmptyDict
  /\ issued = {}
  /\ sf_orders = <<>>
  /\ response = NoResponse
  /\ last = NoRequest
  /\ line_ids = EmptyDict

NoProbe ==
  [text |-> "", stage |-> "none", branch |-> "none", items |-> <<>>, reply |-> NoReply]

\* bound of the model: the request threads of the server
NumThreads == 2

\* bound of the model: the requests the threads take up in all
MaxRequests == 2

Threads == 1..NumThreads

NoResult == [kind |-> "none", cart |-> <<>>, total |-> 0, order_id |-> 0]

\* a thread between requests; `served` counts the requests it has taken up
IdleThread ==
  [pc |-> "idle", session_id |-> "none", text |-> "", customer_id |-> "none",
   extracted |-> <<>>, i |-> 0, existing |-> 0, stale |-> FALSE, quantity |-> 0,
   total |-> 0, order_id |-> 0, result |-> NoResult, served |-> 0]

Init ==
  /\ EngineInit
  /\ probe = NoProbe
  /\ threads = [t \in Threads |-> IdleThread]

Next ==
  \/ \E session_id \in SessionIds, user_text \in Utterances,
        session_token \in Tokens \cup {NoToken} :
        \E reply \in RepliesFor(user_text, model),
           sf_outcome \in OutcomesFor(user_text, Get(carts, session_id, <<>>), sf,
                                      UserOf(session_token).customer_id) :
           ProcessOrder(session_id, user_text, session_token, reply, sf_outcome)
  \/ \E session_token \in Tokens, customer_id \in Customers :
        Login(session_token, customer_id)
  \/ \E session_token \in Tokens : Logout(session_token)

vars == <<engine, probe, threads>>

Spec == Init /\ [][Next]_vars

\* The ordering endpoint beside the account endpoints, for the requests of
\* one session.
AuthNext ==
  \/ \E user_text \in Utterances, session_token \in Tokens \cup {NoToken} :
        \E reply \in RepliesFor(user_text, model),
           sf_outcome \in OutcomesFor(user_text, Get(carts, "s1", <<>>), sf,
                                      UserOf(session_token).customer_id) :
           ProcessOrder("s1", user_text, session_token, reply, sf_outcome)
  \/ \E session_token \in Tokens, customer_id \in Customers :
        Login(session_token, customer_id)
  \/ \E session_token \in Tokens : Logout(session_token)
  \/ \E session_token \in Tokens \cup {NoToken} : GetCurrentUser(session_token)
  \/ \E session_token \in Tokens \cup {NoToken}, answered \in BOOLEAN :
        GetOrderHistory(session_token, answered)

AuthSpec == Init /\ [][AuthNext]_vars

(***************************************************************************)
(* The handler on the threaded server: app.run serves each request on a    *)
(* thread of its own and process_order takes no lock, so the statements of *)
(* two calls interleave.  A step is one statement's access to the shared   *)
(* dicts and lists; the read and the write of `+=` are two steps, and so   *)
(* are a test and the assignment it guards.                                *)
(***************************************************************************)
\* what the thread steps never assign; the identities of the cart lines are
\* followed for whole handlers only
ambient == <<model, sf, sessions, issued, response, last, line_ids, probe>>

RECURSIVE SumServed(_)
SumServed(ts) ==
  IF ts = {} THEN 0
  ELSE LET t == CHOOSE x \in ts : TRUE
       IN  threads[t].served + SumServed(ts \ {t})

\* carts[session_id] = [] binds a new list: a line another thread found in
\* the old list is no longer a line of the session's cart
Orphaned(session_id) ==
  [t \in Threads |->
     IF threads[t].session_id = session_id /\ threads[t].pc \in {"read", "write"}
     THEN [threads[t] EXCEPT !.stale = TRUE]
     ELSE threads[t]]

\* the request is read and the user looked up
Start(t, session_id, user_text, session_token) ==
  /\ threads[t].pc = "idle"
  /\ SumServed(Threads) < MaxRequests
  /\ threads' = [threads EXCEPT ![t] =
                   [IdleThread EXCEPT !.pc = "carts_check",
                                      !.session_id = session_id,
                                      !.text = user_text,
                                      !.customer_id = UserOf(session_token).customer_id,
                                      !.served = threads[t].served + 1]]
  /\ UNCHANGED <<carts, conversation_history, completed_orders, sf_orders, ambient>>

\* if session_id not in carts
CartsCheck(t) ==
  /\ threads[t].pc = "carts_check"
  /\ threads' = [threads EXCEPT ![t].pc =
                   IF threads[t].session_id \notin DOMAIN carts
                   THEN "carts_create" ELSE "history_check"]
  /\ UNCHANGED <<carts, conversation_history, completed_orders, sf_orders, ambient>>

\* carts[session_id] = []
CartsCreate(t) ==
  /\ threads[t].pc = "carts_create"
  /\ carts' = Put(carts, threads[t].session_id, <<>>)
  /\ threads' = [Orphaned(threads[t].session_id) EXCEPT ![t].pc = "history_check"]
  /\ UNCHANGED <<conversation_history, completed_orders, sf_orders, ambient>>

\* if session_id not in conversation_history
HistoryCheck(t) ==
  /\ threads[t].pc = "history_check"
  /\ threads' = [threads EXCEPT ![t].pc =
                   IF threads[t].session_id \notin DOMAIN conversation_history
                   THEN "history_create" ELSE "log"]
  /\ UNCHANGED <<carts, conversation_history, completed_orders, sf_orders, ambient>>

\* conversation_history[session_id] = []
HistoryCreate(t) ==
  /\ threads[t].pc = "history_create"
  /\ conversation_history' = Put(conversation_history, threads[t].session_id, <<>>)
  /\ threads' = [threads EXCEPT ![t].pc = "log"]
  /\ UNCHANGED <<carts, completed_orders, sf_orders, ambient>>

\* the utterance is logged and the if-chain picks its branch
Log(t) ==
  /\ threads[t].pc = "log"
  /\ conversation_history' =
       [conversation_history EXCEPT ![threads[t].session_id] =
          Append(@, <<"Customer", threads[t].text>>)]
  /\ threads' = [threads EXCEPT ![t].pc = Branch(UtteranceFacts[threads[t].text])]
  /\ UNCHANGED <<carts, completed_orders, sf_orders, ambient>>

\* the casual branch returns the cart as it is
Casual(t) ==
  /\ threads[t].pc = "casual"
  /\ threads' = [threads EXCEPT
                   ![t].pc = "done",
                   ![t].result = [NoResult EXCEPT
                                    !.kind = "casual",
                                    !.cart = carts[threads[t].session_id],
                                    !.total = Total(carts[threads[t].session_id])]]
  /\ UNCHANGED <<carts, conversation_history, completed_orders, sf_orders, ambient>>

\* the cart-clear branch
Clear(t) ==
  /\ threads[t].pc = "clear"
  /\ carts' = ClearedCarts(carts, threads[t].session_id)
  /\ threads' = [Orphaned(threads[t].session_id) EXCEPT
                   ![t].pc = "done",
                   ![t].result = [NoResult EXCEPT !.kind = "clear"]]
  /\ UNCHANGED <<conversation_history, completed_orders, sf_orders, ambient>>

\* if not carts[session_id]
CheckoutCheck(t) ==
  /\ threads[t].pc = "checkout"
  /\ threads' = IF carts[threads[t].session_id] = <<>>
                THEN [threads EXCEPT
                        ![t].pc = "done",
                        ![t].result = [NoResult EXCEPT !.kind = "empty_checkout"]]
                ELSE [threads EXCEPT ![t].pc = "checkout_total"]
  /\ UNCHANGED <<carts, conversation_history, completed_orders, sf_orders, ambient>>

\* total = sum(...) of the checkout branch
CheckoutTotal(t) ==
  /\ threads[t].pc = "checkout_total"
  /\ threads' = [threads EXCEPT ![t].pc = "checkout_save",
                                ![t].total = Total(carts[threads[t].session_id])]
  /\ UNCHANGED <<carts, conversation_history, completed_orders, sf_orders, ambient>>

\* if sf and customer_id: order_id = save_order_to_salesforce(...)
CheckoutSave(t, sf_outcome) ==
  LET me   == threads[t]
      cart == carts[me.session_id]
  IN  /\ me.pc = "checkout_save"
      /\ IF sf /\ me.customer_id # "none"
         THEN /\ sf_outcome \in SaveOutcomes(cart)
              /\ sf_orders' = SaveOrder(sf_orders, me.customer_id, me.session_id,
                                        cart, me.total, sf_outcome)
              /\ threads' = [threads EXCEPT
                               ![t].pc = "checkout_flag",
                               ![t].order_id = SaveResult(sf_orders, cart, sf_outcome)]
         ELSE /\ sf_outcome = NoWrite
              /\ sf_orders' = sf_orders
              /\ threads' = [threads EXCEPT ![t].pc = "checkout_flag"]
      /\ UNCHANGED <<carts, conversation_history, completed_orders, ambient>>

\* completed_orders[session_id] = True
CheckoutFlag(t) ==
  /\ threads[t].pc = "checkout_flag"
  /\ completed_orders' = Put(completed_orders, threads[t].session_id, TRUE)
  /\ threads' = [threads EXCEPT ![t].pc = "checkout_return"]
  /\ UNCHANGED <<carts, conversation_history, sf_orders, ambient>>

\* the checkout branch returns the cart as it is now and the total it summed
CheckoutReturn(t) ==
  /\ threads[t].pc = "checkout_return"
  /\ threads' = [threads EXCEPT
                   ![t].pc = "done",
                   ![t].result = [kind |-> "checkout",
                                  cart |-> carts[threads[t].session_id],
                                  total |-> threads[t].total,
                                  order_id |-> threads[t].order_id]]
  /\ UNCHANGED <<carts, conversation_history, completed_orders, sf_orders, ambient>>

\* extracted_items = extract_order_with_gemini(user_text)
Extract(t, reply) ==
  /\ threads[t].pc = "extract"
  /\ reply \in RepliesFor(threads[t].text, model)
  /\ threads' = [threads EXCEPT
                   ![t].extracted = Extracted[threads[t].text, model, reply],
                   ![t].pc = IF Extracted[threads[t].text, model, reply] = <<>>
                             THEN "no_items" ELSE "restart_check"]
  /\ UNCHANGED <<carts, conversation_history, completed_orders, sf_orders, ambient>>

\* the no-items branch returns the cart as it is
NoItems(t) ==
  /\ threads[t].pc = "no_items"
  /\ threads' = [threads EXCEPT
                   ![t].pc = "done",
                   ![t].result = [NoResult EXCEPT
                                    !.kind = "no_items",
                                    !.cart = carts[threads[t].session_id],
                                    !.total = Total(carts[threads[t].session_id])]]
  /\ UNCHANGED <<carts, conversation_history, completed_orders, sf_orders, ambient>>

\* if completed_orders.get(session_id, False)
RestartCheck(t) ==
  /\ threads[t].pc = "restart_check"
  /\ threads' = [threads EXCEPT
                   ![t].i = 1,
                   ![t].pc = IF Get(completed_orders, threads[t].session_id, FALSE)
                             THEN "restart_cart" ELSE "find"]
  /\ UNCHANGED <<carts, conversation_history, completed_orders, sf_orders, ambient>>

\* carts[session_id] = [] of the restart
RestartCart(t) ==
  /\ threads[t].pc = "restart_cart"
  /\ carts' = [carts EXCEPT ![threads[t].session_id] = <<>>]
  /\ threads' = [Orphaned(threads[t].session_id) EXCEPT ![t].pc = "restart_flag"]
  /\ UNCHANGED <<conversation_history, completed_orders, sf_orders, ambient>>

\* completed_orders[session_id] = False
RestartFlag(t) ==
  /\ threads[t].pc = "restart_flag"
  /\ completed_orders' = Put(completed_orders, threads[t].session_id, FALSE)
  /\ threads' = [threads EXCEPT ![t].pc = "find"]
  /\ UNCHANGED <<carts, conversation_history, sf_orders, ambient>>

\* existing = next((x for x in carts[session_id] if ...), None), or the end
\* of the loop
Find(t) ==
  LET me == threads[t]
  IN  /\ me.pc = "find"
      /\ threads' =
           IF me.i > Len(me.extracted)
           THEN [threads EXCEPT ![t].pc = "add_total"]
           ELSE [threads EXCEPT
                   ![t].existing = FirstLine(carts[me.session_id], me.extracted[me.i].key),
                   ![t].stale = FALSE,
                   ![t].pc = IF FirstLine(carts[me.session_id],
                                          me.extracted[me.i].key) # 0
                             THEN "read" ELSE "append"]
      /\ UNCHANGED <<carts, conversation_history, completed_orders, sf_orders, ambient>>

\* existing['quantity'] += item['quantity']: the read
Read(t) ==
  LET me == threads[t]
  IN  /\ me.pc = "read"
      /\ threads' = [threads EXCEPT
                       ![t].pc = "write",
                       ![t].quantity = IF me.stale THEN 0
                                       ELSE carts[me.session_id][me.existing].quantity]
      /\ UNCHANGED <<carts, conversation_history, completed_orders, sf_orders, ambient>>

\* existing['quantity'] += item['quantity']: the write
Write(t) ==
  LET me == threads[t]
  IN  /\ me.pc = "write"
      /\ carts' = IF me.stale THEN carts
                  ELSE [carts EXCEPT ![me.session_id][me.existing].quantity =
                          me.quantity + me.extracted[me.i].quantity]
      /\ threads' = [threads EXCEPT ![t].pc = "find", ![t].i = me.i + 1,
                                    ![t].existing = 0, ![t].stale = FALSE,
                                    ![t].quantity = 0]
      /\ UNCHANGED <<conversation_history, completed_orders, sf_orders, ambient>>

\* carts[session_id].append(item)
AppendItem(t) ==
  LET me == threads[t]
  IN  /\ me.pc = "append"
      /\ carts' = [carts EXCEPT ![me.session_id] = Append(@, me.extracted[me.i])]
      /\ threads' = [threads EXCEPT ![t].pc = "find", ![t].i = me.i + 1]
      /\ UNCHANGED <<conversation_history, completed_orders, sf_orders, ambient>>

\* total = sum(...) of the add branch
AddTotal(t) ==
  /\ threads[t].pc = "add_total"
  /\ threads' = [threads EXCEPT ![t].pc = "add_return",
                                ![t].total = Total(carts[threads[t].session_id])]
  /\ UNCHANGED <<carts, conversation_history, completed_orders, sf_orders, ambient>>

\* the add branch returns the cart as it is now and the total it summed
AddReturn(t) ==
  /\ threads[t].pc = "add_return"
  /\ threads' = [threads EXCEPT
                   ![t].pc = "done",
                   ![t].result = [NoResult EXCEPT
                                    !.kind = "add",
                                    !.cart = carts[threads[t].session_id],
                                    !.total = threads[t].total]]
  /\ UNCHANGED <<carts, conversation_history, completed_orders, sf_orders, ambient>>

\* the response is sent and the thread is free again
Finish(t) ==
  /\ threads[t].pc = "done"
  /\ threads' = [threads EXCEPT ![t] = [IdleThread EXCEPT !.served = threads[t].served]]
  /\ UNCHANGED <<carts, conversation_history, completed_orders, sf_orders, ambient>>

ThreadStep(t) ==
  \/ \E session_id \in SessionIds, user_text \in Utterances,
        session_token \in Tokens \cup {NoToken} :
        Start(t, session_id, user_text, session_token)
  \/ CartsCheck(t)
  \/ CartsCreate(t)
  \/ HistoryCheck(t)
  \/ HistoryCreate(t)
  \/ Log(t)
  \/ Casual(t)
  \/ Clear(t)
  \/ CheckoutCheck(t)
  \/ CheckoutTotal(t)
  \/ \E sf_outcome \in SaveOutcomes(Get(carts, threads[t].session_id, <<>>)) \cup {NoWrite} :
        CheckoutSave(t, sf_outcome)
  \/ CheckoutFlag(t)
  \/ CheckoutReturn(t)
  \/ \E reply \in EngineReplies \cup {NoReply} : Extract(t, reply)
  \/ NoItems(t)
  \/ RestartCheck(t)
  \/ RestartCart(t)
  \/ RestartFlag(t)
  \/ Find(t)
  \/ Read(t)
  \/ Write(t)
  \/ AppendItem(t)
  \/ AddTotal(t)
  \/ AddReturn(t)
  \/ Finish(t)

\* The threads read `sessions` once, in Start, so a login or logout between
\* their steps shows only in whether a token still names a user there; the
\* token and the logged-in state are drawn instead.
ConcNext == \E t \in Threads : ThreadStep(t)

\* The server when the concurrent requests arrive: just started, or with
\* session s1 having ordered a burger and checked out without logging in;
\* with nobody logged in, or cust1 logged in under token t1.
ColdStart ==
  [carts |-> EmptyDict, conversation_history |-> EmptyDict,
   completed_orders |-> EmptyDict]

CompletedStart ==
  [carts |-> Put(EmptyDict, "s1", Merge(<<>>, Extracted["a burger", FALSE, NoReply])),
   conversation_history |->
     Put(EmptyDict, "s1", << <<"Customer", "a burger">>,
                             <<"Customer", "that's all, no more pizza">> >>),
   completed_orders |-> Put(EmptyDict, "s1", TRUE)]

ConcInit ==
  /\ model \in BOOLEAN
  /\ sf \in BOOLEAN
  /\ \E start \in {ColdStart, CompletedStart} :
       /\ carts = start.carts
       /\ conversation_history = start.conversation_history
       /\ completed_orders = start.completed_orders
       /\ line_ids = [s \in DOMAIN start.carts |->
                        [p \in 1..Len(start.carts[s]) |-> p]]
  /\ \/ sessions = EmptyDict
     \/ sf /\ sessions = Put(EmptyDict, "t1", [customer_id |-> "cust1", name |-> "cust1"])
  /\ issued = DOMAIN sessions
  /\ sf_orders = <<>>
  /\ response = NoResponse
  /\ last = NoRequest
  /\ probe = NoProbe
  /\ threads = [t \in Threads |-> IdleThread]

ConcSpec == ConcInit /\ [][ConcNext]_vars

(***************************************************************************)
(* The outbound calls of a request: model.generate_content and the         *)
(* sf.*.create calls are made without a timeout and no timer runs beside   *)
(* them, so a call the collaborator never answers keeps its thread where   *)
(* it is.                                                                  *)
(***************************************************************************)
\* the thread is about to call a collaborator: the completion service from
\* the extractor (304) or from generate_response_with_gemini for the
\* welcome, checkout and add answers (414), the record store from
\* save_order_to_salesforce (177, 188)
AtCollaboratorCall(t) ==
  \/ threads[t].pc \in {"extract", "casual", "checkout_save", "add_return"} /\ model
  \/ threads[t].pc = "checkout_save" /\ sf /\ threads[t].customer_id # "none"

\* the collaborator accepts the call and never answers
Hang(t) ==
  /\ AtCollaboratorCall(t)
  /\ threads' = [threads EXCEPT ![t].pc = "blocked"]
  /\ UNCHANGED <<carts, conversation_history, completed_orders, sf_orders, ambient>>

\* one request thread, with collaborators that may not answer
LiveNext ==
  \/ ThreadStep(1)
  \/ Hang(1)

\* the server schedules a thread that can take a step
LiveSpec == ConcInit /\ [][LiveNext]_vars /\ WF_vars(ThreadStep(1))

(***************************************************************************)
(* The classifier and the extractors as functions of a text: one text is   *)
(* drawn, and each action applies one of the functions to it.              *)
(***************************************************************************)
\* bound of the model: the entries of one reply of the completion service
MaxEntries == 2

SampleTexts ==
  {"  Hi!! ", "hi", "hi there", "  Hi ", "hiii", "HELLO", "Thank you", "no", "nope",
   "clear cart", "clear my cart and checkout", "checkout", "i'm done", "finished",
   "that's all, no more pizza", "two burgers and a coffee", "three more coffees",
   "0 fries", "12 sodas please", "two chicken wings", "a cheeseburger", "more fries",
   "burger two", "Coffee and 3 more water", "um", ""}

\* the entries a reply is made of
ProbeEntries ==
  { Entry(Chars["burger"], 2),
    Entry(<<"C","o","f","f","e","e"," ">>, 1),
    Entry(Chars["taco"], 1),
    Entry(Chars["soda"], 0),
    Entry(Chars["water"], -1),
    [Entry(Chars["pizza"], 1) EXCEPT !.qty_kind = "missing"],
    [Entry(<<>>, 2) EXCEPT !.item_kind = "missing"],
    [Entry(<<>>, 1) EXCEPT !.item_kind = "non_str"],
    [Entry(Chars["fries"], 1) EXCEPT !.qty_kind = "bad"],
    [Entry(<<>>, 1) EXCEPT !.shape = "non_object"] }

\* the sequences of at most n entries
RECURSIVE EntryLists(_)
EntryLists(n) ==
  IF n = 0 THEN {<<>>}
  ELSE EntryLists(n - 1) \cup
       {Append(l, e) : l \in {x \in EntryLists(n - 1) : Len(x) = n - 1}, e \in ProbeEntries}

ProbeReplies ==
  {ReplyRaise, ReplyEmptyText, ReplyMalformed, ReplyNonList, ReplyEmptyNonList}
    \cup {ReplyList(l) : l \in EntryLists(MaxEntries)}

SampleFacts == [u \in SampleTexts |-> TextFacts(Chars[u])]

SampleFallback == [u \in SampleTexts |-> fallback_extract_order(Chars[u])]

TextInit ==
  /\ EngineInit
  /\ threads = [t \in Threads |-> IdleThread]
  /\ \E u \in SampleTexts : probe = [NoProbe EXCEPT !.text = u, !.stage = "text"]

\* the handler's if-chain applied to the text
Classify ==
  /\ probe.stage = "text"
  /\ probe' = [probe EXCEPT !.stage = "classified",
                            !.branch = Branch(SampleFacts[probe.text])]
  /\ UNCHANGED <<engine, threads>>

\* fallback_extract_order applied to the text
ExtractFallback ==
  /\ probe.stage = "text"
  /\ probe' = [probe EXCEPT !.stage = "fallback", !.items = SampleFallback[probe.text]]
  /\ UNCHANGED <<engine, threads>>

\* extract_order_with_gemini applied to the text; the completion service
\* answers `reply` when the function gets as far as asking it
ExtractPrimary(reply) ==
  /\ probe.stage = "text"
  /\ reply \in (IF /\ model
                   /\ ~SampleFacts[probe.text].casual
                   /\ ~SampleFacts[probe.text].checkout
                THEN ProbeReplies ELSE {NoReply})
  /\ probe' = [probe EXCEPT
                 !.stage = "extracted",
                 !.reply = reply,
                 !.items = extract_order_with_gemini(SampleFacts[probe.text],
                             SampleFallback[probe.text], model, reply)]
  /\ UNCHANGED <<engine, threads>>

TextNext ==
  \/ Classify
  \/ ExtractFallback
  \/ \E reply \in ProbeReplies \cup {NoReply} : ExtractPrimary(reply)

TextSpec == TextInit /\ [][TextNext]_vars

(***************************************************************************)
(* Properties of the handler, stated on the last request (`last`), the     *)
(* response it got and the state it left                                   *)
(***************************************************************************)
Handled == last.branch # "none"

\* the cart and the completed flag of the session of the last request
NowCart == Get(carts, last.session_id, <<>>)

NowCompleted == Get(completed_orders, last.session_id, FALSE)

\* the quantity a sequence of lines or items holds under a key
RECURSIVE QtyOf(_, _)
QtyOf(lines, key) ==
  IF lines = <<>> THEN 0
  ELSE (IF lines[1].key = key THEN lines[1].quantity ELSE 0) + QtyOf(Tail(lines), key)

\* sum of unit price times quantity over lines
RECURSIVE SumOfLines(_)
SumOfLines(lines) ==
  IF lines = <<>> THEN 0
  ELSE MenuEntry(lines[1].key).price * lines[1].quantity + SumOfLines(Tail(lines))

DistinctKeys(lines) ==
  \A i, j \in 1..Len(lines) : i # j => lines[i].key # lines[j].key

Merged == last.branch = "extract" /\ last.extracted # <<>>

\* C1: no cart ever holds two lines with the same key, whatever the
\* utterances were and even when one extraction result repeats a key.
C1_NoDuplicateKeys == \A s \in DOMAIN carts : DistinctKeys(carts[s])

C1_Witness ==
  /\ Merged
  /\ \E i, j \in 1..Len(last.extracted) :
        i < j /\ last.extracted[i].key = last.extracted[j].key
  /\ last.pre_cart # <<>>

\* C2: merging adds: every line of the cart merged into keeps its place and
\* key, and its quantity grows by the quantities extracted under its key (by
\* nothing when its key was not extracted); a burger merged into a cart of
\* one burger gives one burger line of quantity 2 and a total of twice the
\* burger price.
C2_MergeAdditive ==
  Merged =>
    LET base == IF last.pre_completed THEN <<>> ELSE last.pre_cart
    IN  /\ Len(NowCart) >= Len(base)
        /\ \A i \in 1..Len(base) :
              /\ NowCart[i].key = base[i].key
              /\ NowCart[i].quantity =
                   base[i].quantity + QtyOf(last.extracted, base[i].key)
        /\ ( /\ base = <<MakeItem("burger", 1)>>
             /\ last.extracted = <<MakeItem("burger", 1)>> )
           => /\ NowCart = <<MakeItem("burger", 2)>>
              /\ response.total = 2 * 899

C2_Witness ==
  /\ Merged
  /\ ~last.pre_completed
  /\ last.pre_cart = <<MakeItem("burger", 1)>>
  /\ last.extracted = <<MakeItem("burger", 1)>>

\* C3: a non-empty extraction on a completed session empties the cart and
\* resets the flag before merging, so the cart then holds exactly the
\* extracted items, one line per key; and a checkout response reports the
\* lines and the total of the cart as it was before that checkout.
C3_CheckoutThenReorder ==
  /\ (Merged /\ last.pre_completed) =>
        /\ ~NowCompleted
        /\ DistinctKeys(NowCart)
        /\ \A k \in MenuKeys : QtyOf(NowCart, k) = QtyOf(last.extracted, k)
        /\ response.cart = NowCart
  /\ response.kind = "checkout" =>
        /\ response.cart = last.pre_cart
        /\ response.total = SumOfLines(last.pre_cart)

C3_Witness ==
  /\ Merged
  /\ last.pre_completed
  /\ \E i \in 1..Len(last.pre_cart) : QtyOf(last.extracted, last.pre_cart[i].key) = 0

\* C4: a checkout on an empty cart answers success false with an empty cart
\* and total 0, leaves the cart empty and the completed flag as it was, and
\* calls the record store not at all.
C4_EmptyCheckout ==
  (last.branch = "checkout" /\ last.pre_cart = <<>>) =>
    /\ response.kind = "empty_checkout"
    /\ ~response.success
    /\ response.cart = <<>>
    /\ response.total = 0
    /\ NowCart = <<>>
    /\ NowCompleted = last.pre_completed
    /\ ~last.sf_attempted

C4_Witness ==
  /\ last.branch = "checkout"
  /\ last.pre_cart = <<>>
  /\ sf
  /\ last.customer_id # "none"

\* C5: a cart-clear utterance empties the cart in every lifecycle state and
\* leaves the completed flag as it was.
C5_ClearCart ==
  last.branch = "clear" =>
    /\ NowCart = <<>>
    /\ NowCompleted = last.pre_completed

C5_Witness ==
  /\ last.branch = "clear"
  /\ last.pre_completed
  /\ last.pre_cart # <<>>

\* C6: every utterance is handled by the first category it matches in the
\* order casual, cart-clear, checkout, extraction, and by no other; an
\* utterance matching cart-clear and checkout is handled as cart-clear, and
\* "ok" reaches neither checkout nor extraction.
C6_IntentPrecedence ==
  Handled =>
    LET f == UtteranceFacts[last.text]
    IN  /\ f.casual => response.kind = "casual"
        /\ (~f.casual /\ f.clear) => response.kind = "clear"
        /\ (~f.casual /\ ~f.clear /\ f.checkout) =>
              response.kind \in {"checkout", "empty_checkout"}
        /\ (~f.casual /\ ~f.clear /\ ~f.checkout) =>
              response.kind \in {"add", "no_items"}
        /\ (f.clear /\ f.checkout) =>
              /\ NowCart = <<>>
              /\ NowCompleted = last.pre_completed
              /\ ~last.sf_attempted
        /\ last.text = "ok" =>
              /\ response.kind = "casual"
              /\ ~last.extract_called
              /\ ~last.sf_attempted
              /\ NowCart = last.pre_cart
              /\ NowCompleted = last.pre_completed

C6_Witness ==
  /\ Handled
  /\ UtteranceFacts[last.text].clear
  /\ UtteranceFacts[last.text].checkout
  /\ last.pre_cart # <<>>

\* whether a menu key is a substring of the lowercased utterance
MentionsMenuItem ==
  [u \in Utterances |->
     \E i \in MenuIndex : Contains(Chars[MENU[i].key], Lower(Chars[u]))]

\* C7: an utterance with a checkout phrase and a menu item in it, neither
\* casual nor cart-clear, is handled as a checkout and leaves every cart line
\* as it was; the extractor is not invoked for a casual or a checkout
\* utterance, and returns nothing for one.
C7_CheckoutPrecedence ==
  Handled =>
    LET f == UtteranceFacts[last.text]
    IN  /\ (f.checkout /\ MentionsMenuItem[last.text] /\ ~f.casual /\ ~f.clear) =>
              /\ response.kind \in {"checkout", "empty_checkout"}
              /\ NowCart = last.pre_cart
        /\ (f.casual \/ f.checkout) =>
              /\ ~last.extract_called
              /\ \A configured \in BOOLEAN, reply \in EngineReplies \cup {NoReply} :
                    Extracted[last.text, configured, reply] = <<>>

C7_Witness ==
  /\ Handled
  /\ UtteranceFacts[last.text].checkout
  /\ MentionsMenuItem[last.text]
  /\ ~UtteranceFacts[last.text].clear
  /\ last.pre_cart # <<>>

(***************************************************************************)
(* C8: casual detection on whole utterances                                *)
(***************************************************************************)
Classified == probe.stage = "classified"

Repeat(c, n) == [i \in 1..n |-> c]

\* the lowercased utterance without its leading and trailing whitespace
Normal(u) == Strip(Lower(Chars[u]))

\* s is, as a whole, one of the fixed phrases or hi, hello, hey with the last
\* letter drawn out
WholeCasualPhrase(s) ==
  \/ \E i \in 1..Len(casual_exact_patterns) : s = casual_exact_patterns[i]
  \/ \E i \in 1..Len(casual_plus_patterns) :
       \E n \in 0..Len(s) :
         s = casual_plus_patterns[i]
               \o Repeat(casual_plus_patterns[i][Len(casual_plus_patterns[i])], n)

\* C8 as stated: classify("  Hi!! ") and classify("hi") both yield Casual,
\* and classify("hi there") yields OrderExtraction.
C8_Original ==
  Classified =>
    /\ (probe.text \in {"  Hi!! ", "hi"} => probe.branch = "casual")
    /\ (probe.text = "hi there" => probe.branch = "extract")

\* C8: classify("hi") and classify("  Hi ") yield Casual; classify("hi there")
\* and classify("  Hi!! ") yield OrderExtraction: an utterance is Casual
\* exactly when its lowercased form, trimmed of whitespace only, is as a whole
\* one of the casual phrases; punctuation is not removed.
C8_CasualAnchored ==
  Classified =>
    /\ (probe.text \in {"hi", "  Hi "} => probe.branch = "casual")
    /\ (probe.text \in {"hi there", "  Hi!! "} => probe.branch = "extract")
    /\ (probe.branch = "casual" <=> WholeCasualPhrase(Normal(probe.text)))

C8_Witness ==
  /\ Classified
  /\ probe.text = "  Hi!! "
  /\ probe.branch = "extract"

(***************************************************************************)
(* C10: the primary extractor's failures degrade to the fallback           *)
(***************************************************************************)
\* extract_order_with_gemini has run and has asked the completion service
AskedService ==
  /\ probe.stage = "extracted"
  /\ model
  /\ probe.reply # NoReply

\* an entry that is not an object with a string "item" and a numeric or
\* absent "quantity"
WrongShape(e) ==
  \/ e.shape # "object"
  \/ e.item_kind # "str"
  \/ e.qty_kind = "bad"

\* an entry the loop cannot process: no object, an "item" that is no
\* string, a "quantity" that is no number
Unprocessable(e) ==
  \/ e.shape # "object"
  \/ e.item_kind = "non_str"
  \/ e.qty_kind = "bad"

ServiceFailed(reply) == reply.kind \in {"raise", "empty", "malformed"}

\* the entries of a reply that name a menu key, once lowercased and trimmed
NamesMenuKey(e) ==
  /\ e.item_kind = "str"
  /\ KeyOfChars(Strip(Lower(e.item))) \in MenuKeys

MenuEntries(reply) == SelectSeq(reply.entries, NamesMenuKey)

\* C10 as stated: when the primary extractor's call raises, returns empty
\* text, malformed JSON or entries of the wrong shape, extract returns exactly
\* the fallback extractor's result.
C10_Original ==
  AskedService =>
    ((\/ ServiceFailed(probe.reply)
      \/ \E i \in 1..Len(probe.reply.entries) : WrongShape(probe.reply.entries[i]))
       => probe.items = SampleFallback[probe.text])

\* C10: when the primary extractor's call raises, returns empty text,
\* malformed JSON, a value the loop cannot walk, or an entry the loop cannot
\* process (no object, a non-string item, a non-numeric quantity), extract
\* returns exactly the fallback extractor's result; in every other case,
\* an entry without "item" included, it returns one item per entry naming a
\* menu key, in the reply's order, with the entry's quantity or 1.
C10_FailureFallsBack ==
  AskedService =>
    IF \/ ServiceFailed(probe.reply)
       \/ probe.reply.kind = "non_list"
       \/ \E i \in 1..Len(probe.reply.entries) : Unprocessable(probe.reply.entries[i])
    THEN probe.items = SampleFallback[probe.text]
    ELSE /\ Len(probe.items) = Len(MenuEntries(probe.reply))
         /\ \A i \in 1..Len(probe.items) :
              /\ probe.items[i].key = KeyOfChars(Strip(Lower(MenuEntries(probe.reply)[i].item)))
              /\ probe.items[i].quantity =
                   (IF MenuEntries(probe.reply)[i].qty_kind = "int"
                    THEN MenuEntries(probe.reply)[i].quantity ELSE 1)

C10_Witness ==
  /\ AskedService
  /\ probe.reply.kind = "list"
  /\ \E i \in 1..Len(probe.reply.entries) : probe.reply.entries[i].shape # "object"
  /\ \E i \in 1..Len(probe.reply.entries) : NamesMenuKey(probe.reply.entries[i])
  /\ probe.items = SampleFallback[probe.text]
  /\ probe.items # <<>>


(***************************************************************************)
(* C9: two requests of one session at a time                               *)
(***************************************************************************)
\* a and b are the only requests their session has had, both have merged a
\* non-empty extraction and returned
BothMerged(a, b) ==
  /\ a # b
  /\ threads[a].pc = "done" /\ threads[b].pc = "done"
  /\ threads[a].result.kind = "add" /\ threads[b].result.kind = "add"
  /\ threads[a].session_id = threads[b].session_id
  /\ threads[a].served = 1 /\ threads[b].served = 1
  /\ Len(conversation_history[threads[a].session_id]) <= 2

\* C9: when two process_order requests for one session run concurrently and
\* each merges a non-empty extraction, the final cart is the cart of the two
\* merges run one after the other, in one order or the other.
C9_NoLostUpdate ==
  \A a, b \in Threads :
    BothMerged(a, b) =>
      carts[threads[a].session_id] \in
        { Merge(Merge(<<>>, threads[a].extracted), threads[b].extracted),
          Merge(Merge(<<>>, threads[b].extracted), threads[a].extracted) }

(***************************************************************************)
(* C11: a failed record-store write at checkout                            *)
(***************************************************************************)
\* this step is a process_order call: it logs an utterance
HandlerStep == conversation_history' # conversation_history

\* the step wrote to the record store and the write failed: the order record
\* was not created, or it was and a line record was not
SaveFailedStep ==
  /\ last'.sf_attempted
  /\ \/ sf_orders' = sf_orders
     \/ /\ Len(sf_orders') = Len(sf_orders) + 1
        /\ Len(sf_orders'[Len(sf_orders')].items) < Len(last'.pre_cart)

\* C11: a Checkout on a non-empty cart whose record-store write fails still
\* answers success true and checkout true with no order reference, sets the
\* completed flag and leaves the cart as it was.
C11_WriteFailureSwallowed ==
  [][ ( /\ HandlerStep
        /\ last'.branch = "checkout"
        /\ last'.pre_cart # <<>>
        /\ SaveFailedStep )
      => /\ response'.kind = "checkout"
         /\ response'.success
         /\ response'.checkout
         /\ response'.order_id = 0
         /\ Get(completed_orders', last'.session_id, FALSE)
         /\ carts'[last'.session_id] = last'.pre_cart
         /\ carts[last'.session_id] = last'.pre_cart ]_vars

C11_Witness ==
  /\ last.branch = "checkout"
  /\ last.sf_attempted
  /\ NowCart # <<>>
  /\ NowCart = last.pre_cart
  /\ sf_orders # <<>>
  /\ Len(sf_orders[Len(sf_orders)].items) < Len(NowCart)
  /\ response.success /\ response.checkout /\ response.order_id = 0
  /\ NowCompleted

(***************************************************************************)
(* C12: every request is answered                                          *)
(***************************************************************************)
\* C12: every utterance processing terminates with a response, also when a
\* collaborator never answers: a request that was taken up eventually
\* returns.
C12_EventuallyResponds ==
  (threads[1].pc = "carts_check") ~> (threads[1].pc = "done")

(***************************************************************************)
(* C13: requests without a valid session token                             *)
(***************************************************************************)
\* the cart process_order leaves, whoever asks
UsualCart(pre_cart, pre_completed, branch, extracted) ==
  IF branch = "clear" THEN <<>>
  ELSE IF branch = "extract" /\ extracted # <<>>
       THEN Merge(IF pre_completed THEN <<>> ELSE pre_cart, extracted)
       ELSE pre_cart

\* process_order under a token the session table does not hold
AnonymousOrder(session_token) ==
  HandlerStep =>
    \A reply \in EngineReplies \cup {NoReply},
       sf_outcome \in {NoWrite} \cup SaveOutcomes(Get(carts, last'.session_id, <<>>)) :
      ProcessOrder(last'.session_id, last'.text, session_token, reply, sf_outcome)
        => /\ last'.customer_id = "none"
           /\ ~last'.sf_attempted
           /\ sf_orders' = sf_orders
           /\ carts'[last'.session_id] =
                UsualCart(last'.pre_cart, last'.pre_completed,
                          last'.branch, last'.extracted)

\* C13: process_order with no session token, or with a token that is not in
\* the session table (never issued or logged out), proceeds anonymously,
\* changes the cart as usual and attempts no record-store write; the
\* order-history and current-user endpoints answer 'Not authenticated' to
\* every such token; a token is out of the table once logout was called with
\* it.
C13_Unauthenticated ==
  [][ \A session_token \in Tokens \cup {NoToken} :
        /\ (session_token \notin DOMAIN sessions) =>
             /\ AnonymousOrder(session_token)
             /\ GetCurrentUser(session_token) => response' = NotAuthenticated
             /\ \A answered \in BOOLEAN :
                  GetOrderHistory(session_token, answered) => response' = NotAuthenticated
        /\ Logout(session_token) => session_token \notin DOMAIN sessions' ]_vars

\* logged out, refused by an account endpoint, and a checkout of a non-empty
\* cart went by without a write to the connected record store
C13_Witness ==
  /\ "t1" \in issued
  /\ "t1" \notin DOMAIN sessions
  /\ response.status = 401
  /\ response.error = "Not authenticated"
  /\ \E s \in DOMAIN completed_orders : completed_orders[s] /\ carts[s] # <<>>
  /\ sf_orders = <<>>

(***************************************************************************)
(* C14: the quantity the fallback extractor infers                         *)
(***************************************************************************)
FellBack == probe.stage = "fallback"

\* the tokens of the lowercased utterance
TokensOf(u) == Split(Lower(Chars[u]))

\* a token that is a quantity word (a, an, one .. ten) or a bare integer
HasValue(w) == InQuantityMap(w) \/ IsDigit(w)

ValueOf(w) == IF InQuantityMap(w) THEN QuantityOf(w) ELSE IntOf(w)

\* the position of the first token that contains the key's first word
FirstTokenWith(key, w) ==
  CHOOSE j \in 1..Len(w) :
    /\ Contains(Split(Chars[key])[1], w[j])
    /\ \A g \in 1..(j - 1) : ~Contains(Split(Chars[key])[1], w[g])

InferredQuantity(key, w) ==
  LET j == FirstTokenWith(key, w)
  IN  IF j > 1 /\ HasValue(w[j - 1]) THEN ValueOf(w[j - 1])
      ELSE IF j > 2 /\ w[j - 1] = <<"m","o","r","e">> /\ HasValue(w[j - 2])
           THEN ValueOf(w[j - 2])
           ELSE 1

\* C14: for each menu key found, the fallback extractor takes the first
\* token containing the key's first word; the quantity is the value of the
\* token before it if that is a quantity word or a bare integer, else, if
\* that token is "more", the value of the token before "more" when that is a
\* quantity word or integer, else 1; "three more coffees" gives coffee 3 and
\* "two burgers and a coffee" gives quantities 2 and 1.
C14_FallbackQuantity ==
  FellBack =>
    /\ \A i \in 1..Len(probe.items) :
         probe.items[i].quantity =
           InferredQuantity(probe.items[i].key, TokensOf(probe.text))
    /\ (probe.text = "three more coffees"
          => probe.items = <<MakeItem("coffee", 3)>>)
    /\ (probe.text = "two burgers and a coffee"
          => /\ Len(probe.items) = 2
             /\ probe.items[1].quantity = 2
             /\ probe.items[2].quantity = 1)

C14_Witness ==
  /\ FellBack
  /\ probe.text = "three more coffees"
  /\ probe.items = <<MakeItem("coffee", 3)>>

(***************************************************************************)
(* C15: quantities of extracted items and cart lines                       *)
(***************************************************************************)
\* C15: every cart line in every reachable cart, and every item either
\* extractor produces, has a quantity of at least 1, whatever the utterance
\* and the completion service's reply.
C15_QuantityAtLeastOne ==
  /\ \A i \in 1..Len(probe.items) : probe.items[i].quantity >= 1
  /\ \A s \in DOMAIN carts : \A i \in 1..Len(carts[s]) : carts[s][i].quantity >= 1

(***************************************************************************)
(* C16: which items the fallback extractor returns                         *)
(***************************************************************************)
\* the menu keys in declared order
MenuKeySeq == [k \in 1..Len(MENU) |-> MENU[k].key]

\* the keys of a sequence of items
KeysOf(items) == [i \in 1..Len(items) |-> items[i].key]

\* C16: the fallback extractor returns exactly one item for each menu key
\* that is a substring of the lowercased utterance and none for any other
\* key, in declared menu key order; with the completion service disabled
\* "two burgers and a coffee" yields burger 2, coffee 1 in that order, and no
\* key appears twice in one fallback result.
C16_FallbackPerKey ==
  /\ FellBack =>
       /\ KeysOf(probe.items) =
            SelectSeq(MenuKeySeq,
                      LAMBDA key : Contains(Chars[key], Lower(Chars[probe.text])))
       /\ DistinctKeys(probe.items)
  /\ ( /\ probe.stage \in {"fallback", "extracted"}
       /\ ~model
       /\ probe.text = "two burgers and a coffee" )
       => probe.items = <<MakeItem("burger", 2), MakeItem("coffee", 1)>>

C16_Witness ==
  /\ probe.stage = "extracted"
  /\ ~model
  /\ probe.text = "two burgers and a coffee"
  /\ probe.items = <<MakeItem("burger", 2), MakeItem("coffee", 1)>>

(***************************************************************************)
(* C17: only menu items enter a cart                                       *)
(***************************************************************************)
\* the line or item carries the catalog's name and price of a menu key
FromCatalog(line) ==
  /\ line.key \in MenuKeys
  /\ line.name = MenuEntry(line.key).name
  /\ line.price = MenuEntry(line.key).price

\* the completion service answered the last request with a list
ListReplied == Handled /\ last.reply.kind = "list"

\* an entry whose item is a menu key but for the case of its letters
ExactMenuKey(e) ==
  /\ e.item_kind = "str"
  /\ KeyOfChars(Lower(e.item)) \in MenuKeys

StepOn(s) == HandlerStep /\ last'.session_id = s

\* ... that merges a non-empty extraction
MergeStepOn(s) ==
  StepOn(s) /\ last'.branch = "extract" /\ last'.extracted # <<>>

\* ... that is a cart-clear
ClearStepOn(s) == StepOn(s) /\ last'.branch = "clear"

\* ... that checks a non-empty cart out
CheckoutStepOn(s) ==
  StepOn(s) /\ last'.branch = "checkout" /\ Get(carts, s, <<>>) # <<>>

IsCompleted(s) == Get(completed_orders, s, FALSE)

\* C18 as stated: once a non-empty cart is checked out, the cart stays line
\* for line what it was through every utterance up to the next one with a
\* non-empty extraction.
C18_Original ==
  [][ \A s \in SessionIds :
        /\ CheckoutStepOn(s) => carts'[s] = carts[s]
        /\ (IsCompleted(s) /\ ~MergeStepOn(s)) => carts'[s] = carts[s] ]_vars

\* C18: checking a non-empty cart out sets the completed flag and leaves the
\* cart line for line as it was; while the flag is true, no step but a
\* cart-clear or an utterance with a non-empty extraction changes the cart
\* or the flag; a cart-clear empties the cart and leaves the flag true.
C18_FrozenCart ==
  [][ \A s \in SessionIds :
        /\ CheckoutStepOn(s) =>
             /\ carts'[s] = carts[s]
             /\ Get(completed_orders', s, FALSE)
        /\ (IsCompleted(s) /\ ~MergeStepOn(s) /\ ~ClearStepOn(s)) =>
             /\ carts'[s] = carts[s]
             /\ Get(completed_orders', s, FALSE)
        /\ (IsCompleted(s) /\ ClearStepOn(s)) =>
             /\ carts'[s] = <<>>
             /\ Get(completed_orders', s, FALSE) ]_vars

\* a second checkout and a no-items utterance found the checked-out cart as
\* it was
C18_Witness ==
  /\ last.pre_completed
  /\ last.branch \in {"checkout", "extract", "casual"}
  /\ last.extracted = <<>>
  /\ last.pre_cart # <<>>
  /\ NowCart = last.pre_cart
  /\ NowCompleted

(***************************************************************************)
(* C19: one record-store write per completed order                         *)
(***************************************************************************)
\* C19: each completed order is written to the record store at most once:
\* after a Checkout has attempted the write, a further Checkout on the same
\* session attempts no other write until a non-empty extraction has
\* restarted the cart; here, for the Checkout that comes next.
C19_WrittenOnce ==
  [][ ( /\ last.branch = "checkout"
        /\ last.sf_attempted
        /\ HandlerStep
        /\ last'.session_id = last.session_id
        /\ last'.branch = "checkout" )
      => ~last'.sf_attempted ]_vars

(***************************************************************************)
(* C20: the order written at checkout                                      *)
(***************************************************************************)
RECURSIVE SumOfItemRecords(_)
SumOfItemRecords(items) ==
  IF items = <<>> THEN 0
  ELSE items[1].unit_price * items[1].quantity + SumOfItemRecords(Tail(items))

\* C20: the order handed to the record store at checkout is consistent: the
\* total passed is the sum of unit price times quantity over the lines
\* passed, also when another request of the session merges items during the
\* checkout.  Stated for the orders whose write succeeded in full.
C20_OrderConsistent ==
  \A t \in Threads :
    threads[t].order_id # 0 =>
      sf_orders[threads[t].order_id].total =
        SumOfItemRecords(sf_orders[threads[t].order_id].items)

(***************************************************************************)
(* C21: the total of a response                                            *)
(***************************************************************************)
\* the sum of unit price times quantity over the positions of a cart
RECURSIVE SumOverLines(_, _)
SumOverLines(cart, positions) ==
  IF positions = {} THEN 0
  ELSE LET i == CHOOSE p \in positions : TRUE
       IN  cart[i].price * cart[i].quantity + SumOverLines(cart, positions \ {i})

\* C21: every process_order response reports the total of the cart it
\* returns, the sum of unit price times quantity over its lines (0 for an
\* empty cart), and that cart is the session's cart as the utterance left
\* it, whichever branch answered.
C21_ResponseTotal ==
  response.kind \in {"casual", "clear", "empty_checkout", "checkout", "no_items", "add"} =>
    /\ response.total = SumOverLines(response.cart, DOMAIN response.cart)
    /\ response.cart = carts[last.session_id]

\* an add that merged into an existing line and appended another
C21_Witness ==
  /\ response.kind = "add"
  /\ Len(response.cart) >= 2
  /\ Len(last.pre_cart) >= 1
  /\ \E i \in DOMAIN response.cart : response.cart[i].quantity >= 2
  /\ response.total > 0

(***************************************************************************)
(* C22: the items_added list of an add response                            *)
(***************************************************************************)
\* the sum of the quantities of the lines of a list under one key
RECURSIVE QuantityUnder(_, _)
QuantityUnder(lines, key) ==
  IF lines = <<>> THEN 0
  ELSE (IF lines[1].key = key THEN lines[1].quantity ELSE 0)
       + QuantityUnder(Tail(lines), key)

\* the cart the utterance of the last request was merged into
MergedInto == IF last.pre_completed THEN <<>> ELSE last.pre_cart

\* C22: the items_added list of an add response reports what the utterance
\* added: for every key, the quantities listed under it sum to the increase
\* of that key's cart quantity (to its full cart quantity after a restart),
\* also when the extraction result holds the same key more than once.
C22_ItemsAddedIsIncrease ==
  response.kind = "add" =>
    \A key \in MenuKeys :
      QuantityUnder(response.items_added, key) =
        QuantityUnder(response.cart, key) - QuantityUnder(MergedInto, key)

(***************************************************************************)
(* C23: an utterance in which no item is recognised                        *)
(***************************************************************************)
\* a process_order step that reached the extractor and got nothing from it
NoItemsStep ==
  HandlerStep /\ last'.branch = "extract" /\ last'.extracted = <<>>

\* C23: an utterance routed to extraction that yields no item leaves the
\* session's cart and completed flag as they were, whatever the state of the
\* session; a completed session is not restarted by it.
C23_NoItemsNoEffect ==
  [][ NoItemsStep =>
        /\ response'.kind = "no_items"
        /\ carts'[last'.session_id] = Get(carts, last'.session_id, <<>>)
        /\ Get(completed_orders', last'.session_id, FALSE)
             = Get(completed_orders, last'.session_id, FALSE)
        /\ response'.cart = Get(carts, last'.session_id, <<>>) ]_vars

\* nothing recognised in a completed session that still holds its cart
C23_Witness ==
  /\ response.kind = "no_items"
  /\ last.branch = "extract" /\ last.extracted = <<>>
  /\ last.pre_completed
  /\ last.pre_cart # <<>>
  /\ carts[last.session_id] = last.pre_cart
  /\ IsCompleted(last.session_id)

(***************************************************************************)
(* C24: session isolation                                                  *)
(***************************************************************************)
\* the entry of session s is the same in d and e, absent included
SameEntry(d, e, s) ==
  /\ s \in DOMAIN d <=> s \in DOMAIN e
  /\ s \in DOMAIN d => d[s] = e[s]

\* the objects the cart of session s refers to
IdsOf(ids, s) == IF s \in DOMAIN ids THEN {ids[s][p] : p \in DOMAIN ids[s]} ELSE {}

\* no cart line object is in the carts of two sessions
NoSharedLine(ids) ==
  \A s \in SessionIds, t \in SessionIds :
    s # t => IdsOf(ids, s) \cap IdsOf(ids, t) = {}

\* C24: processing an utterance for one session leaves the cart, the
\* conversation log and the completed flag of every other session as they
\* were, and afterwards no cart line object is in the carts of two sessions.
C24_SessionIsolation ==
  [][ HandlerStep =>
        /\ \A s \in SessionIds \ {last'.session_id} :
             /\ SameEntry(carts, carts', s)
             /\ SameEntry(line_ids, line_ids', s)
             /\ SameEntry(conversation_history, conversation_history', s)
             /\ SameEntry(completed_orders, completed_orders', s)
        /\ NoSharedLine(line_ids')
        /\ DOMAIN line_ids' = DOMAIN carts'
        /\ \A s \in DOMAIN carts' : Len(line_ids'[s]) = Len(carts'[s]) ]_vars

\* an item added for s2 while s1 holds a completed cart with a line of the
\* same key
C24_Witness ==
  /\ last.session_id = "s2"
  /\ response.kind = "add"
  /\ "s1" \in DOMAIN carts
  /\ carts["s1"] # <<>>
  /\ IsCompleted("s1")
  /\ \E p \in DOMAIN carts["s1"], q \in DOMAIN carts["s2"] :
       carts["s1"][p].key = carts["s2"][q].key

====
